---- MODULE Spec2Model ----
(***************************************************************************)
(* Model of the resume scorer: resume_parser.py (text extraction,          *)
(* experience estimation, skill detection, scoring) and the upload handler *)
(* of app.py.                                                              *)
(*                                                                         *)
(* A Python str is a sequence of one-character strings, so that the        *)
(* regular expressions of the source are computed position by position.    *)
(***************************************************************************)
EXTENDS Integers, Sequences, FiniteSets, TLC

VARIABLES
  now,      \* the calendar year datetime.now().year returns
  disk,     \* the files of UPLOAD_FOLDER, by file name
  req,      \* the upload requests being served by upload_file_and_score
  call,     \* the function call under test: its arguments, position, result
  history   \* the completed calls of parse_and_score_resume, in order

vars == <<now, disk, req, call, history>>

\* ------------------------------------------------------------- bounds
MaxLexemes == 3
MaxTicks == 1
MaxPositive == 5
MaxCalls == 3
MaxRequests == 2

\* The years the clock of the host can show while the model runs.
ClockYears == 2026..(2026 + MaxTicks)

\* ------------------------------------------------------------- characters
LowerLetters ==
  <<"a","b","c","d","e","f","g","h","i","j","k","l","m",
    "n","o","p","q","r","s","t","u","v","w","x","y","z">>
UpperLetters ==
  <<"A","B","C","D","E","F","G","H","I","J","K","L","M",
    "N","O","P","Q","R","S","T","U","V","W","X","Y","Z">>
DigitChars == <<"0","1","2","3","4","5","6","7","8","9">>

Range(s) == { s[i] : i \in DOMAIN s }

Digits == Range(DigitChars)

\* \w of the re module, on the characters the model uses
WordChars == Range(LowerLetters) \cup Range(UpperLetters) \cup Digits \cup {"_"}

\* \s of the re module, on the characters the model uses
Whitespace == {" ", "\n"}

\* str.lower() on one character
LowerChar(c) ==
  IF c \in Range(UpperLetters)
    THEN LowerLetters[CHOOSE i \in DOMAIN UpperLetters : UpperLetters[i] = c]
    ELSE c

\* str.lower()
Lower(s) == [i \in DOMAIN s |-> LowerChar(s[i])]

\* int() of a string of decimal digits
DigitValue(c) == (CHOOSE i \in DOMAIN DigitChars : DigitChars[i] = c) - 1

RECURSIVE ParseInt(_)
ParseInt(s) ==
  IF s = <<>> THEN 0
  ELSE 10 * ParseInt(SubSeq(s, 1, Len(s) - 1)) + DigitValue(s[Len(s)])

\* ------------------------------------------------------------- regex pieces
\* Offsets count the characters before a position: 0 is the start of the text.

\* \b at offset i
WordBoundary(text, i) ==
  ((i >= 1) /\ (text[i] \in WordChars)) # ((i < Len(text)) /\ (text[i + 1] \in WordChars))

\* the literal lit matches at offset i
LiteralAt(text, i, lit) ==
  /\ i + Len(lit) <= Len(text)
  /\ \A k \in 1..Len(lit) : text[i + k] = lit[k]

\* the literal lit matches at offset i under re.IGNORECASE
LiteralAtIgnoreCase(text, i, lit) ==
  /\ i + Len(lit) <= Len(text)
  /\ \A k \in 1..Len(lit) : LowerChar(text[i + k]) = LowerChar(lit[k])

\* 20\d{2} matches at offset i
YearAt(text, i) ==
  /\ i + 4 <= Len(text)
  /\ text[i + 1] = "2"
  /\ text[i + 2] = "0"
  /\ text[i + 3] \in Digits
  /\ text[i + 4] \in Digits

\* the offset \s* stops at, from offset i (greedy; what follows it in the
\* patterns of the source never matches a space, so no shorter run matches)
RECURSIVE SkipWhitespace(_, _)
SkipWhitespace(text, i) ==
  IF i < Len(text) /\ text[i + 1] \in Whitespace
    THEN SkipWhitespace(text, i + 1)
    ELSE i

\* U+2013 and U+2014, each one character of the text
EnDash == "u2013"
EmDash == "u2014"

\* the character class [-<en dash><em dash>to] under re.IGNORECASE: it matches
\* one character, so "t" and "o" are separators and the word "to" is not
SeparatorChars == {"-", EnDash, EmDash, "t", "o", "T", "O"}

PRESENT == <<"p","r","e","s","e","n","t">>
CURRENT == <<"c","u","r","r","e","n","t">>

\* (\b(20\d{2}|present|current)\b) at offset i: the length matched, 0 for none.
\* The alternatives are tried in the order written.
EndTokenLength(text, i) ==
  IF ~WordBoundary(text, i) THEN 0
  ELSE IF YearAt(text, i) /\ WordBoundary(text, i + 4) THEN 4
  ELSE IF LiteralAtIgnoreCase(text, i, PRESENT) /\ WordBoundary(text, i + 7) THEN 7
  ELSE IF LiteralAtIgnoreCase(text, i, CURRENT) /\ WordBoundary(text, i + 7) THEN 7
  ELSE 0

\* The range pattern tried at offset p: whether it matches, the two groups the
\* loop of the source reads and the offset the match ends at.
RangeMatchAt(text, p) ==
  LET sep == SkipWhitespace(text, p + 4)
      tok == SkipWhitespace(text, sep + 1)
      startOk == WordBoundary(text, p) /\ YearAt(text, p) /\ WordBoundary(text, p + 4)
      sepOk == startOk /\ sep < Len(text) /\ text[sep + 1] \in SeparatorChars
      n == IF sepOk THEN EndTokenLength(text, tok) ELSE 0
  IN  [ok |-> n > 0,
       start_year_str |-> IF n > 0 THEN SubSeq(text, p + 1, p + 4) ELSE <<>>,
       end_year_str |-> IF n > 0 THEN SubSeq(text, tok + 1, tok + n) ELSE <<>>,
       stop |-> tok + n]

\* re.findall of the range pattern: the matches from offset p on, leftmost
\* first, each search resuming where the previous match ended.
RECURSIVE FindYearRanges(_, _)
FindYearRanges(text, p) ==
  IF p + 4 > Len(text) THEN <<>>
  ELSE LET m == RangeMatchAt(text, p)
       IN  IF m.ok THEN <<m>> \o FindYearRanges(text, m.stop)
           ELSE FindYearRanges(text, p + 1)

\* re.findall(r'\b20\d{2}\b', text), as the set the source makes of it
StandaloneYears(text) ==
  { SubSeq(text, i + 1, i + 4) :
      i \in { j \in 0..Len(text) :
                WordBoundary(text, j) /\ YearAt(text, j) /\ WordBoundary(text, j + 4) } }

SetMax(S) == CHOOSE x \in S : \A y \in S : y <= x
SetMin(S) == CHOOSE x \in S : \A y \in S : x <= y

\* end_year - start_year of one match
Duration(m, current_year) ==
  LET start_year == ParseInt(m.start_year_str)
      end_year == IF Lower(m.end_year_str) \in {PRESENT, CURRENT}
                    THEN current_year
                    ELSE ParseInt(m.end_year_str)
  IN  end_year - start_year

\* MaxDuration without the comparison: the duration of the last match
RECURSIVE MaxDuration_LastMatch(_, _, _)
MaxDuration_LastMatch(year_ranges, current_year, max_duration) ==
  IF year_ranges = <<>> THEN max_duration
  ELSE MaxDuration_LastMatch(Tail(year_ranges), current_year,
                             Duration(Head(year_ranges), current_year))

\* the loop over year_ranges: the largest duration above 0, else 0
RECURSIVE MaxDuration(_, _, _)
MaxDuration(year_ranges, current_year, max_duration) ==
  IF year_ranges = <<>> THEN max_duration
  ELSE LET duration == Duration(Head(year_ranges), current_year)
       IN  MaxDuration(Tail(year_ranges), current_year,
                       IF duration > max_duration THEN duration ELSE max_duration)

_get_experience_years(text) ==
  LET year_ranges == FindYearRanges(text, 0)
  IN  IF year_ranges = <<>>
        THEN LET years == StandaloneYears(text)
                 unique_years == { ParseInt(y) : y \in years }
             IN  IF years = {} THEN 0
                 ELSE IF Cardinality(unique_years) > 1
                   THEN SetMax(unique_years) - SetMin(unique_years)
                   ELSE 1
        ELSE LET max_duration == MaxDuration(year_ranges, now, 0)
             IN  IF max_duration > 0 THEN max_duration ELSE 1

\* ------------------------------------------------------------- catalogs
JOB_ROLES ==
  "Data Analyst" :>
     [experience_range |-> <<1, 5>>,
      mandatory_keywords |->
        <<<<"s","q","l">>, <<"e","x","c","e","l">>, <<"t","a","b","l","e","a","u">>,
          <<"p","o","w","e","r"," ","b","i">>>>,
      positive_keywords |->
        <<<<"a","n","a","l","y","s","t">>, <<"a","n","a","l","y","t","i","c","s">>,
          <<"d","a","s","h","b","o","a","r","d">>, <<"r","e","p","o","r","t","i","n","g">>,
          <<"p","y","t","h","o","n">>, <<"r">>, <<"s","t","a","t","i","s","t","i","c","s">>,
          <<"v","i","s","u","a","l","i","z","a","t","i","o","n">>,
          <<"d","a","t","a"," ","e","n","g","i","n","e","e","r">>, <<"e","t","l">>>>]
  @@ "Junior Developer" :>
     [experience_range |-> <<0, 3>>,
      mandatory_keywords |->
        <<<<"p","y","t","h","o","n">>, <<"g","i","t">>, <<"s","q","l">>>>,
      positive_keywords |->
        <<<<"d","e","v","e","l","o","p","e","r">>, <<"s","o","f","t","w","a","r","e">>,
          <<"e","n","g","i","n","e","e","r">>, <<"c","o","d","e">>,
          <<"p","r","o","g","r","a","m","m","i","n","g">>, <<"f","l","a","s","k">>,
          <<"d","j","a","n","g","o">>, <<"a","p","i">>>>]
  @@ "DevOps Engineer" :>
     [experience_range |-> <<2, 7>>,
      mandatory_keywords |->
        <<<<"a","w","s">>, <<"d","o","c","k","e","r">>,
          <<"k","u","b","e","r","n","e","t","e","s">>, <<"c","i","/","c","d">>,
          <<"t","e","r","r","a","f","o","r","m">>>>,
      positive_keywords |->
        <<<<"d","e","v","o","p","s">>,
          <<"i","n","f","r","a","s","t","r","u","c","t","u","r","e">>,
          <<"a","u","t","o","m","a","t","i","o","n">>, <<"c","l","o","u","d">>,
          <<"s","y","s","a","d","m","i","n">>, <<"j","e","n","k","i","n","s">>,
          <<"a","n","s","i","b","l","e">>>>]
  @@ "Machine Learning Engineer" :>
     [experience_range |-> <<2, 8>>,
      mandatory_keywords |->
        <<<<"p","y","t","h","o","n">>, <<"t","e","n","s","o","r","f","l","o","w">>,
          <<"p","y","t","o","r","c","h">>,
          <<"s","c","i","k","i","t","-","l","e","a","r","n">>, <<"s","q","l">>>>,
      positive_keywords |->
        <<<<"m","a","c","h","i","n","e"," ","l","e","a","r","n","i","n","g">>, <<"m","l">>,
          <<"a","i">>,
          <<"a","r","t","i","f","i","c","i","a","l"," ","i","n","t","e","l","l","i","g","e","n","c","e">>,
          <<"d","e","e","p"," ","l","e","a","r","n","i","n","g">>, <<"n","l","p">>,
          <<"c","o","m","p","u","t","e","r"," ","v","i","s","i","o","n">>>>]
  @@ "Frontend Developer" :>
     [experience_range |-> <<1, 6>>,
      mandatory_keywords |->
        <<<<"h","t","m","l">>, <<"c","s","s">>, <<"j","a","v","a","s","c","r","i","p","t">>,
          <<"r","e","a","c","t">>, <<"g","i","t">>>>,
      positive_keywords |->
        <<<<"f","r","o","n","t","e","n","d">>, <<"u","i">>, <<"u","x">>,
          <<"w","e","b"," ","d","e","v","e","l","o","p","e","r">>,
          <<"a","n","g","u","l","a","r">>, <<"v","u","e">>,
          <<"t","y","p","e","s","c","r","i","p","t">>>>]

SKILLS_DB ==
  <<<<"p","y","t","h","o","n">>, <<"j","a","v","a">>, <<"c","+","+">>, <<"s","q","l">>,
    <<"j","a","v","a","s","c","r","i","p","t">>, <<"h","t","m","l">>, <<"c","s","s">>,
    <<"g","i","t">>, <<"d","o","c","k","e","r">>,
    <<"k","u","b","e","r","n","e","t","e","s">>, <<"a","w","s">>,
    <<"a","z","u","r","e">>, <<"g","c","p">>, <<"r","e","a","c","t">>,
    <<"a","n","g","u","l","a","r">>, <<"v","u","e">>, <<"d","j","a","n","g","o">>,
    <<"f","l","a","s","k">>, <<"f","a","s","t","a","p","i">>,
    <<"t","e","n","s","o","r","f","l","o","w">>, <<"p","y","t","o","r","c","h">>,
    <<"s","c","i","k","i","t","-","l","e","a","r","n">>, <<"p","a","n","d","a","s">>,
    <<"n","u","m","p","y">>, <<"m","a","t","p","l","o","t","l","i","b">>,
    <<"s","e","a","b","o","r","n">>, <<"t","a","b","l","e","a","u">>,
    <<"p","o","w","e","r"," ","b","i">>, <<"e","x","c","e","l">>, <<"r">>,
    <<"c","i","/","c","d">>, <<"j","e","n","k","i","n","s">>,
    <<"a","n","s","i","b","l","e">>, <<"t","e","r","r","a","f","o","r","m">>,
    <<"n","l","p">>, <<"c","o","m","p","u","t","e","r"," ","v","i","s","i","o","n">>,
    <<"a","p","a","c","h","e"," ","s","p","a","r","k">>, <<"h","a","d","o","o","p">>,
    <<"a","i","r","f","l","o","w">>,
    <<"a","w","s"," ","r","e","d","s","h","i","f","t">>, <<"e","t","l">>>>

RoleNames == DOMAIN JOB_ROLES

\* ------------------------------------------------------------- skill detection
\* The characters of the model in the order of their code points, which is
\* the order sorted() compares strings by.
CodePointOrder ==
  <<"\n", " ", "&", "+", "-", "/">> \o DigitChars \o UpperLetters \o <<"_">>
    \o LowerLetters \o <<EnDash, EmDash>>

CodePoint(c) == CHOOSE i \in DOMAIN CodePointOrder : CodePointOrder[i] = c

\* a < b for two Python strings
RECURSIVE StrLess(_, _)
StrLess(a, b) ==
  IF b = <<>> THEN FALSE
  ELSE IF a = <<>> THEN TRUE
  ELSE IF Head(a) = Head(b) THEN StrLess(Tail(a), Tail(b))
  ELSE CodePoint(Head(a)) < CodePoint(Head(b))

\* sorted(list(set(...))): the strings of S in ascending order, each once
RECURSIVE Sorted(_)
Sorted(S) ==
  IF S = {} THEN <<>>
  ELSE LET least == CHOOSE x \in S : \A y \in S \ {x} : StrLess(x, y)
       IN  <<least>> \o Sorted(S \ {least})

\* re.search(r'\b' + re.escape(skill) + r'\b', text)
SearchWholeWord(skill, text) ==
  \E i \in 0..(Len(text) - Len(skill)) :
    /\ LiteralAt(text, i, skill)
    /\ WordBoundary(text, i)
    /\ WordBoundary(text, i + Len(skill))

\* _find_skills with found_skills kept at module level: the skills of the
\* earlier calls stay in the list
_find_skills_ModuleLevelList(text) ==
  Sorted({ skill \in Range(SKILLS_DB) : SearchWholeWord(skill, text) }
         \cup UNION { Range(history[i].ret.value.Top_Skills) :
                        i \in { j \in DOMAIN history :
                                  /\ history[j].ret.kind = "return"
                                  /\ "Top_Skills" \in DOMAIN history[j].ret.value } })

_find_skills(text) ==
  Sorted({ skill \in Range(SKILLS_DB) : SearchWholeWord(skill, text) })

\* ------------------------------------------------------------- text extraction
\* A file of UPLOAD_FOLDER holds a document: a PDF with the text of its pages
\* (kind "pdf"), or bytes PyMuPDF cannot open (kind "garbage": not a PDF, or
\* an upload cut short). writer is the request that wrote the file.
NoFile == [exists |-> FALSE, writer |-> 0, kind |-> "none", pages |-> <<>>]

FileOf(writer, doc) ==
  [exists |-> TRUE, writer |-> writer, kind |-> doc.kind, pages |-> doc.pages]

FileAt(filepath) == IF filepath \in DOMAIN disk THEN disk[filepath] ELSE NoFile

\* fitz.open raises for a missing file and for bytes it cannot parse
FitzOpens(file) == file.exists /\ file.kind = "pdf"

RECURSIVE Concat(_)
Concat(parts) ==
  IF parts = <<>> THEN <<>> ELSE Head(parts) \o Concat(Tail(parts))

\* the text read from a file; every exception of the read is caught and
\* turned into the empty string
TextOfFile(file) ==
  IF FitzOpens(file)
    THEN Lower(Concat(file.pages))
    ELSE <<>>

_extract_text_from_pdf(filepath) == TextOfFile(FileAt(filepath))

\* ------------------------------------------------------------- scoring
\* keyword in text: containment, anywhere
Contains(text, keyword) ==
  \E i \in 0..(Len(text) - Len(keyword)) : LiteralAt(text, i, keyword)

\* The scores are floats in the source. They are kept here as exact fractions
\* num/den; for every count the catalog allows, the float comparisons of the
\* source with 60, 80 and 100 give what the fractions give.
Frac(num, den) == [num |-> num, den |-> den]
FracLess(a, b) == a.num * b.den < b.num * a.den
FracEq(a, b) == a.num * b.den = b.num * a.den
FracGeq(a, n) == a.num >= n * a.den
FracHalfSum(a, b) == Frac(a.num * b.den + b.num * a.den, 2 * a.den * b.den)

\* min(a, b) of Python: b only when b < a
FracMin(a, b) == IF FracLess(b, a) THEN b ELSE a

\* the number of positive keywords found in the text
SemanticCount(positive_keywords, text) ==
  Cardinality({ i \in DOMAIN positive_keywords : Contains(text, positive_keywords[i]) })

\* Recommend with the score tested before the experience range
Recommend_ScoreFirst(extracted_experience, total_score, exp_min, exp_max) ==
  [Recommendation |->
     IF FracGeq(total_score, 80) THEN "Strong Fit"
     ELSE IF FracGeq(total_score, 60) THEN "Good Fit"
     ELSE IF extracted_experience > exp_max THEN "Potential Fit (Overqualified)"
     ELSE IF extracted_experience < exp_min THEN "Not a Fit (Underqualified)"
     ELSE "Near-Fit Candidate (Offer Learning Path)",
   Explanation |-> [template |-> "", values |-> <<>>]]

\* the recommendation and its explanation; the f-strings of the source are
\* kept as the template and the values written into it
Recommend(extracted_experience, total_score, exp_min, exp_max) ==
  IF extracted_experience > exp_max THEN
    [Recommendation |-> "Potential Fit (Overqualified)",
     Explanation |-> [template |-> "Candidate has ~{extracted_experience} years of experience, exceeding the role's maximum of {exp_max} years.",
                      values |-> <<extracted_experience, exp_max>>]]
  ELSE IF extracted_experience < exp_min THEN
    [Recommendation |-> "Not a Fit (Underqualified)",
     Explanation |-> [template |-> "Candidate has only ~{extracted_experience} years of experience, below the minimum {exp_min} years required.",
                      values |-> <<extracted_experience, exp_min>>]]
  ELSE IF FracGeq(total_score, 80) THEN
    [Recommendation |-> "Strong Fit",
     Explanation |-> [template |-> "Candidate's ~{extracted_experience} years of experience is a perfect match for this role, with strong keyword alignment.",
                      values |-> <<extracted_experience>>]]
  ELSE IF FracGeq(total_score, 60) THEN
    [Recommendation |-> "Good Fit",
     Explanation |-> [template |-> "Candidate meets the experience criteria and has a good set of matching skills.",
                      values |-> <<>>]]
  ELSE
    [Recommendation |-> "Near-Fit Candidate (Offer Learning Path)",
     Explanation |-> [template |-> "Candidate meets the experience criteria but has some skill gaps that could be addressed with training.",
                      values |-> <<>>]]

\* what a call ends with: a value returned or an exception raised
Returns(value) == [kind |-> "return", exc |-> "", value |-> value]
Raises(exc) == [kind |-> "raise", exc |-> exc, value |-> <<>>]

ErrorRecord == [error |-> "Could not read text from the resume file."]

\* MandatoryLoop with the increment outside the if: every keyword is counted
RECURSIVE MandatoryLoop_CountsAll(_, _, _)
MandatoryLoop_CountsAll(mandatory_keywords, extracted_skills, acc) ==
  IF mandatory_keywords = <<>> THEN acc
  ELSE LET req_skill == Head(mandatory_keywords)
       IN  MandatoryLoop_CountsAll(Tail(mandatory_keywords), extracted_skills,
             IF req_skill \in Range(extracted_skills)
               THEN [acc EXCEPT !.keywords_found = @ + 1]
               ELSE [acc EXCEPT !.keywords_found = @ + 1,
                                !.skill_gaps = Append(@, req_skill)])

\* the loop over the mandatory keywords: found ones counted, the others
\* appended to skill_gaps
RECURSIVE MandatoryLoop(_, _, _)
MandatoryLoop(mandatory_keywords, extracted_skills, acc) ==
  IF mandatory_keywords = <<>> THEN acc
  ELSE LET req_skill == Head(mandatory_keywords)
       IN  MandatoryLoop(Tail(mandatory_keywords), extracted_skills,
             IF req_skill \in Range(extracted_skills)
               THEN [acc EXCEPT !.keywords_found = @ + 1]
               ELSE [acc EXCEPT !.skill_gaps = Append(@, req_skill)])

\* the scoring of a text that was read
ScoreText(text, role_reqs) ==
  LET extracted_experience == _get_experience_years(text)
      extracted_skills == _find_skills(text)
      semantic_score == SemanticCount(role_reqs.positive_keywords, text)
      semantic_score_scaled == FracMin(Frac(semantic_score * 100, 5), Frac(100, 1))
      mandatory == MandatoryLoop(role_reqs.mandatory_keywords, extracted_skills,
                                 [keywords_found |-> 0, skill_gaps |-> <<>>])
      keyword_score_scaled ==
        Frac(mandatory.keywords_found * 100, Len(role_reqs.mandatory_keywords))
      total_score == FracHalfSum(semantic_score_scaled, keyword_score_scaled)
      verdict == Recommend(extracted_experience, total_score,
                           role_reqs.experience_range[1], role_reqs.experience_range[2])
  IN  [Total_Score_Bias_Free |-> total_score,
       F_semantic_scaled |-> semantic_score_scaled,
       F_keyword_scaled |-> keyword_score_scaled,
       Recommendation |-> verdict.Recommendation,
       Explanation |-> verdict.Explanation,
       Skill_Gaps |-> mandatory.skill_gaps,
       Top_Skills |-> extracted_skills]

\* parse_and_score_resume with the role looked up after the text is read
parse_and_score_resume_ReadFirst(filepath, role_name) ==
  LET text == _extract_text_from_pdf(filepath)
  IN  IF text = <<>> THEN Returns(ErrorRecord)
      ELSE IF role_name \notin DOMAIN JOB_ROLES THEN Raises("ValueError")
      ELSE Returns(ScoreText(text, JOB_ROLES[role_name]))

parse_and_score_resume(filepath, role_name) ==
  IF role_name \notin DOMAIN JOB_ROLES THEN Raises("ValueError")
  ELSE LET text == _extract_text_from_pdf(filepath)
       IN  IF text = <<>> THEN Returns(ErrorRecord)
           ELSE Returns(ScoreText(text, JOB_ROLES[role_name]))

\* ------------------------------------------------------------- texts
RECURSIVE Join(_, _)
Join(parts, sep) ==
  IF parts = <<>> THEN <<>>
  ELSE IF Len(parts) = 1 THEN Head(parts)
  ELSE Head(parts) \o sep \o Join(Tail(parts), sep)

SeqsUpTo(S, n) == UNION { [1..k -> S] : k \in 0..n }

Y2015 == <<"2","0","1","5">>
Y2018 == <<"2","0","1","8">>
Y2024 == <<"2","0","2","4">>
TO == <<"t","o">>

\* the pieces the texts given to the experience estimator are made of
ExperienceLexemes ==
  { Y2015, Y2018, Y2024, <<"-">>, TO, <<"t">>, PRESENT,
    Y2015 \o <<"-">> \o Y2024, Y2018 \o <<EnDash>> \o PRESENT }

\* lower-case texts: up to MaxLexemes pieces, written one after the other or
\* with a space between them
ExperienceTexts ==
  { Join(ls, sep) : ls \in SeqsUpTo(ExperienceLexemes, MaxLexemes), sep \in {<<>>, <<" ">>} }

NoDisk == <<>>
NoReq == <<>>
NoHistory == <<>>

\* ------------------------------------------------------------- the estimator alone
InitExperience ==
  /\ now \in ClockYears
  /\ disk = NoDisk
  /\ req = NoReq
  /\ history = NoHistory
  /\ \E t \in ExperienceTexts :
       call = [fn |-> "_get_experience_years", text |-> t, pc |-> "called", ret |-> 0]

GetExperienceYears ==
  /\ call.pc = "called"
  /\ call' = [call EXCEPT !.pc = "returned", !.ret = _get_experience_years(call.text)]
  /\ UNCHANGED <<now, disk, req, history>>

NextExperience == GetExperienceYears

SpecExperience == InitExperience /\ [][NextExperience]_vars

\* the durations of the explicit ranges re.findall reports in a text
RangeDurations(text) ==
  { Duration(m, now) : m \in Range(FindYearRanges(text, 0)) }

\* the years of a text that stand between two word boundaries
MentionedYears(text) ==
  { ParseInt(SubSeq(text, i + 1, i + 4)) :
      i \in { j \in 0..Len(text) :
                WordBoundary(text, j) /\ YearAt(text, j) /\ WordBoundary(text, j + 4) } }

\* C2: a text "<start> to present" is a range match, and the estimate is the
\* current calendar year minus the start year, not the single-year fallback.
C2_ToIsRangeSeparator ==
  \A y \in {Y2015, Y2018, Y2024} :
    (call.pc = "returned" /\ call.text = Join(<<y, TO, PRESENT>>, <<" ">>))
      => call.ret = now - ParseInt(y)

R == <<"r">>
R_AND_D == <<"r","&","d">>
TEAM == <<"t","e","a","m">>
PROFICIENT_IN == <<"p","r","o","f","i","c","i","e","n","t"," ","i","n">>
FOR_STATISTICS == <<"f","o","r"," ","s","t","a","t","i","s","t","i","c","s">>

\* the pieces the texts given to the skill detector are made of
SkillLexemes ==
  { R, R_AND_D, TEAM, PROFICIENT_IN, FOR_STATISTICS,
    <<"c","+","+">>, <<"s","q","l">>, <<"p","o","w","e","r">>, <<"b","i">>,
    <<"r","e","p","o","r","t","i","n","g">> }

SkillTexts ==
  { Join(ls, sep) : ls \in SeqsUpTo(SkillLexemes, MaxLexemes), sep \in {<<>>, <<" ">>} }

InitSkills ==
  /\ now \in ClockYears
  /\ disk = NoDisk
  /\ req = NoReq
  /\ history = NoHistory
  /\ \E t \in SkillTexts :
       call = [fn |-> "_find_skills", text |-> t, pc |-> "called", ret |-> <<>>]

FindSkills ==
  /\ call.pc = "called"
  /\ call' = [call EXCEPT !.pc = "returned", !.ret = _find_skills(call.text)]
  /\ UNCHANGED <<now, disk, req, history>>

NextSkills == FindSkills

SpecSkills == InitSkills /\ [][NextSkills]_vars

\* skill stands in the text as a complete token: a run of characters with
\* white space or an end of the text on either side
OccursAsToken(skill, text) ==
  \E i \in 0..(Len(text) - Len(skill)) :
    /\ LiteralAt(text, i, skill)
    /\ (i = 0 \/ text[i] \in Whitespace)
    /\ (i + Len(skill) = Len(text) \/ text[i + Len(skill) + 1] \in Whitespace)

\* C3: a skill is reported only when it stands in the text as a complete
\* token; "r&d team" does not register the skill "r", and "proficient in r for
\* statistics" does.
C3_WholeWordSkills ==
  call.pc = "returned" =>
    /\ \A skill \in Range(call.ret) : OccursAsToken(skill, call.text)
    /\ call.text = Join(<<R_AND_D, TEAM>>, <<" ">>) => R \notin Range(call.ret)
    /\ call.text = Join(<<PROFICIENT_IN, R, FOR_STATISTICS>>, <<" ">>) => R \in Range(call.ret)

\* ------------------------------------------------------------- one analysis
FILEPATH == "resume.pdf"

Pdf(pages) == [kind |-> "pdf", pages |-> pages]
Garbage == [kind |-> "garbage", pages |-> <<>>]

\* a PDF whose pages carry no text (scanned images)
EmptyPdf == Pdf(<<<<>>, <<>>>>)

\* what a resume says about the years worked, as printed (not lower-cased)
ExperiencePhrases ==
  { <<>>,
    Y2024,
    <<"2","0","2","2","-","2","0","2","4">>,
    <<"2","0","2","1"," ",EnDash," ","2","0","2","4">>,
    <<"2","0","1","8"," ","-"," ","P","r","e","s","e","n","t">>,
    Y2015 \o <<"-">> \o Y2024 }

\* the entries of seq whose index is in idx, in the order of seq
RECURSIVE Pick(_, _, _)
Pick(seq, idx, i) ==
  IF i > Len(seq) THEN <<>>
  ELSE (IF i \in idx THEN <<seq[i]>> ELSE <<>>) \o Pick(seq, idx, i + 1)

\* A resume written for a role: a first page with the years worked, a second
\* with some of the role's mandatory keywords and its first c positive ones.
ResumeFor(role_name, phrase, idx, c) ==
  Pdf(<<phrase \o <<"\n">>,
        Join(Pick(JOB_ROLES[role_name].mandatory_keywords, idx, 1)
               \o SubSeq(JOB_ROLES[role_name].positive_keywords, 1, c), <<" ">>)>>)

Resumes(role_name) ==
  { ResumeFor(role_name, phrase, idx, c) :
      phrase \in ExperiencePhrases,
      idx \in SUBSET (1..Len(JOB_ROLES[role_name].mandatory_keywords)),
      c \in 0..MaxPositive }
  \cup {EmptyPdf, Garbage}

InitAnalyze ==
  /\ now \in ClockYears
  /\ req = NoReq
  /\ history = NoHistory
  /\ \E role_name \in RoleNames :
       /\ \E doc \in Resumes(role_name) : disk = (FILEPATH :> FileOf(0, doc))
       /\ call = [fn |-> "parse_and_score_resume", filepath |-> FILEPATH,
                  role_name |-> role_name, pc |-> "called", ret |-> Raises("")]

ParseAndScoreResume ==
  /\ call.pc = "called"
  /\ call' = [call EXCEPT !.pc = "returned",
                          !.ret = parse_and_score_resume(call.filepath, call.role_name)]
  /\ UNCHANGED <<now, disk, req, history>>

NextAnalyze == ParseAndScoreResume

SpecAnalyze == InitAnalyze /\ [][NextAnalyze]_vars

\* the text the call under test read from its file
TextRead == _extract_text_from_pdf(call.filepath)

\* the call under test returned scores (not the error record, no exception)
Scored ==
  /\ call.pc = "returned"
  /\ call.ret.kind = "return"
  /\ call.ret.value # ErrorRecord

\* C1: experience above the role's maximum gives Overqualified, else below its
\* minimum gives Underqualified, whatever the score; only within [min, max]
\* is the recommendation Strong Fit (total >= 80), Good Fit (total >= 60) or
\* Near-Fit (otherwise).
C1_RecommendationGating ==
  Scored =>
    LET years == _get_experience_years(TextRead)
        exp_min == JOB_ROLES[call.role_name].experience_range[1]
        exp_max == JOB_ROLES[call.role_name].experience_range[2]
        total == call.ret.value.Total_Score_Bias_Free
        recommendation == call.ret.value.Recommendation
    IN  /\ years > exp_max => recommendation = "Potential Fit (Overqualified)"
        /\ (years <= exp_max /\ years < exp_min) =>
             recommendation = "Not a Fit (Underqualified)"
        /\ (exp_min <= years /\ years <= exp_max) =>
             /\ FracGeq(total, 80) => recommendation = "Strong Fit"
             /\ (FracGeq(total, 60) /\ ~FracGeq(total, 80)) => recommendation = "Good Fit"
             /\ ~FracGeq(total, 60) =>
                  recommendation = "Near-Fit Candidate (Offer Learning Path)"
        /\ recommendation \in {"Strong Fit", "Good Fit",
                               "Near-Fit Candidate (Offer Learning Path)"}
             => (exp_min <= years /\ years <= exp_max)

\* C1 witness: a total score of at least 80 with experience below the role's
\* minimum, recommended Underqualified.
C1_Witness ==
  /\ Scored
  /\ FracGeq(call.ret.value.Total_Score_Bias_Free, 80)
  /\ _get_experience_years(TextRead) < JOB_ROLES[call.role_name].experience_range[1]
  /\ call.ret.value.Recommendation = "Not a Fit (Underqualified)"

\* C7: bytes that cannot be decoded make the call fail with UnreadableDocument,
\* and a decodable document with empty text makes it return the error record;
\* neither outcome is turned into the other.
C7_DecodeFailureRaises ==
  (call.pc = "returned" /\ call.role_name \in DOMAIN JOB_ROLES) =>
    /\ FileAt(call.filepath).kind = "garbage" => call.ret = Raises("UnreadableDocument")
    /\ (FileAt(call.filepath).kind = "pdf" /\ TextRead = <<>>) =>
         call.ret = Returns(ErrorRecord)

\* the mandatory keywords of the role of the call under test
Mandatory == JOB_ROLES[call.role_name].mandatory_keywords

\* C8: keywordScore is 100 * (mandatory keywords among the extracted skills) /
\* (mandatory keywords), skillGaps is the other mandatory keywords in catalog
\* order, and a text holding every mandatory keyword as a whole word scores
\* 100 with no gaps.
C8_KeywordScore ==
  Scored =>
    LET skills == Range(call.ret.value.Top_Skills)
        found == { i \in DOMAIN Mandatory : Mandatory[i] \in skills }
    IN  /\ FracEq(call.ret.value.F_keyword_scaled,
                  Frac(100 * Cardinality(found), Len(Mandatory)))
        /\ call.ret.value.Skill_Gaps = Pick(Mandatory, DOMAIN Mandatory \ found, 1)
        /\ (\A i \in DOMAIN Mandatory : OccursAsToken(Mandatory[i], TextRead)) =>
             /\ FracEq(call.ret.value.F_keyword_scaled, Frac(100, 1))
             /\ call.ret.value.Skill_Gaps = <<>>

\* C8 witness: a resume with all five mandatory keywords of the DevOps role,
\* "ci/cd" among them, scored 100 on keywords with no gaps.
C8_Witness ==
  /\ Scored
  /\ call.role_name = "DevOps Engineer"
  /\ \A i \in DOMAIN Mandatory : OccursAsToken(Mandatory[i], TextRead)
  /\ FracEq(call.ret.value.F_keyword_scaled, Frac(100, 1))
  /\ call.ret.value.Skill_Gaps = <<>>

\* ------------------------------------------------------------- repeated analyses
Present2018 == <<"2","0","1","8"," ","-"," ","P","r","e","s","e","n","t">>

\* the documents analysed again and again
RepeatDocs ==
  { ResumeFor("Machine Learning Engineer", Present2018, {1, 5}, 1),
    ResumeFor("Machine Learning Engineer", Y2015 \o <<"-">> \o Y2024, {2}, 0),
    Garbage }

RepeatRoles == {"Machine Learning Engineer", "Junior Developer"}

InitRepeat ==
  /\ now = 2026
  /\ req = NoReq
  /\ history = <<>>
  /\ disk = (FILEPATH :> NoFile)
  /\ call = [fn |-> "parse_and_score_resume", filepath |-> FILEPATH,
             role_name |-> "", pc |-> "idle", ret |-> Raises("")]

\* the caller stores a document and calls the analysis with a role
CallAnalysis(doc, role_name) ==
  /\ call.pc \in {"idle", "returned"}
  /\ Len(history) < MaxCalls
  /\ disk' = (FILEPATH :> FileOf(0, doc))
  /\ call' = [call EXCEPT !.role_name = role_name, !.pc = "called"]
  /\ UNCHANGED <<now, req, history>>

\* the analysis runs and its outcome is recorded with what it was given
ReturnAnalysis ==
  /\ call.pc = "called"
  /\ LET ret == parse_and_score_resume(call.filepath, call.role_name)
     IN  /\ call' = [call EXCEPT !.pc = "returned", !.ret = ret]
         /\ history' = Append(history, [file |-> FileAt(call.filepath),
                                        role_name |-> call.role_name,
                                        year |-> now, ret |-> ret])
  /\ UNCHANGED <<now, disk, req>>

\* New Year: the clock of the host moves to the next calendar year
Tick ==
  /\ now + 1 \in ClockYears
  /\ now' = now + 1
  /\ UNCHANGED <<disk, req, call, history>>

NextRepeat ==
  \/ \E doc \in RepeatDocs, role_name \in RepeatRoles : CallAnalysis(doc, role_name)
  \/ ReturnAnalysis
  \/ Tick

SpecRepeat == InitRepeat /\ [][NextRepeat]_vars

SameInputs(a, b) == a.file = b.file /\ a.role_name = b.role_name

\* C6: two calls with the same document and the same role give the same
\* outcome, whatever happens between them.
C6_SameInputsSameResult ==
  \A i, j \in DOMAIN history :
    SameInputs(history[i], history[j]) => history[i].ret = history[j].ret

\* C6, amended: two calls with the same document and the same role made in
\* the same calendar year give the same outcome, whatever happens between.
C6_SameInputsSameYearSameResult ==
  \A i, j \in DOMAIN history :
    (SameInputs(history[i], history[j]) /\ history[i].year = history[j].year)
      => history[i].ret = history[j].ret

\* C6 witness: a resume with a range ending in "present" scored twice in one
\* year, another document analysed in between, with the same result.
C6_Witness ==
  /\ Len(history) = 3
  /\ SameInputs(history[1], history[3])
  /\ ~SameInputs(history[1], history[2])
  /\ history[1].year = history[3].year
  /\ history[1].file.kind = "pdf"
  /\ Head(history[1].file.pages) = Present2018 \o <<"\n">>
  /\ history[1].ret.kind = "return"
  /\ history[2].ret.kind = "return"
  /\ history[2].ret.value # ErrorRecord
  /\ history[1].ret = history[3].ret

\* ------------------------------------------------------------- the upload handler
UPLOAD_FOLDER == "temp_uploads"

\* os.path.join(UPLOAD_FOLDER, filename)
PathJoin(folder, filename) == <<folder, filename>>

Reqs == 1..MaxRequests

\* the file names the clients send; "" is an upload without a file name
Filenames == {"", "cv.pdf", "resume.pdf"}

UploadRoles == {"Data Analyst", "Nonexistent Role"}

UploadDocs ==
  { ResumeFor("Data Analyst", Y2024, {1, 2}, 2), EmptyPdf, Garbage }

Paths == { PathJoin(UPLOAD_FOLDER, f) : f \in Filenames \ {""} }

NoResult == <<>>
NoResponse == [status |-> 0, detail |-> "", result |-> NoResult]
HTTPException(status_code, detail) ==
  [status |-> status_code, detail |-> detail, result |-> NoResult]
TemplateResponse(result) == [status |-> 200, detail |-> "", result |-> result]

IdleReq ==
  [pc |-> "idle", filename |-> "", role_name |-> "", upload |-> Garbage,
   save |-> "", response |-> NoResponse]

InitUpload ==
  /\ now = 2026
  /\ call = [fn |-> "upload_file_and_score"]
  /\ history = NoHistory
  /\ disk = [p \in Paths |-> NoFile]
  /\ req = [r \in Reqs |-> IdleReq]

\* upload_file_and_score up to its first await. save is what became of
\* writing the upload: "saved"; "open_failed", open() raised and no file was
\* made; "copy_failed", copyfileobj raised after open() made the file.
Receive(r, filename, role_name, upload, save) ==
  /\ req[r].pc = "idle"
  /\ IF filename = ""
       THEN /\ req' = [req EXCEPT ![r] =
                 [IdleReq EXCEPT !.pc = "done",
                                 !.response = HTTPException(400, "No file uploaded.")]]
            /\ disk' = disk
       ELSE LET filepath == PathJoin(UPLOAD_FOLDER, filename)
            IN  /\ req' = [req EXCEPT ![r] =
                     [pc |-> "closing", filename |-> filename, role_name |-> role_name,
                      upload |-> upload, save |-> save, response |-> NoResponse]]
                /\ disk' = CASE save = "saved" ->
                                  [disk EXCEPT ![filepath] = FileOf(r, upload)]
                             [] save = "copy_failed" ->
                                  [disk EXCEPT ![filepath] = FileOf(r, Garbage)]
                             [] OTHER -> disk
  /\ UNCHANGED <<now, call, history>>

\* the response to an outcome of parse_and_score_resume
Respond(outcome) ==
  IF outcome.kind = "raise"
    THEN IF outcome.exc = "ValueError"
           THEN HTTPException(400, "Invalid role")
           ELSE HTTPException(500, "An error occurred during analysis")
    ELSE TemplateResponse(outcome.value)

\* upload_file_and_score from the return of await file.close() to its end:
\* the failure of the save is raised, or the file is analysed and removed
Resume(r) ==
  /\ req[r].pc = "closing"
  /\ LET filepath == PathJoin(UPLOAD_FOLDER, req[r].filename)
     IN  IF req[r].save # "saved"
           THEN /\ req' = [req EXCEPT ![r].pc = "done",
                                      ![r].response = HTTPException(500, "Failed to save file")]
                /\ disk' = disk
           ELSE /\ req' = [req EXCEPT ![r].pc = "done",
                                      ![r].response =
                                        Respond(parse_and_score_resume(filepath, req[r].role_name))]
                /\ disk' = [disk EXCEPT ![filepath] = NoFile]
  /\ UNCHANGED <<now, call, history>>

NextUpload ==
  \/ \E r \in Reqs, filename \in Filenames, role_name \in UploadRoles,
        upload \in UploadDocs, save \in {"saved", "open_failed", "copy_failed"} :
       Receive(r, filename, role_name, upload, save)
  \/ \E r \in Reqs : Resume(r)

SpecUpload == InitUpload /\ [][NextUpload]_vars

\* the request's file was stored and the analysis was called
Analysed(r) == req[r].pc = "done" /\ req[r].save = "saved"

\* C4: for a role that is not in the catalog, whatever the document, the
\* analysis fails before reading it and the handler answers 400 with no
\* result at all.
C4_UnknownRole ==
  \A r \in Reqs :
    (Analysed(r) /\ req[r].role_name \notin DOMAIN JOB_ROLES)
      => req[r].response = HTTPException(400, "Invalid role")

\* C4 witness: an undecodable upload for an unknown role, answered 400.
C4_Witness ==
  \E r \in Reqs :
    /\ Analysed(r)
    /\ req[r].role_name \notin DOMAIN JOB_ROLES
    /\ req[r].upload = Garbage
    /\ req[r].response.status = 400
    /\ req[r].response.result = NoResult

\* what the analysis of the request's own upload for its own role gives
OwnOutcome(r) ==
  IF req[r].role_name \notin DOMAIN JOB_ROLES THEN Raises("ValueError")
  ELSE LET text == TextOfFile(FileOf(r, req[r].upload))
       IN  IF text = <<>> THEN Returns(ErrorRecord)
           ELSE Returns(ScoreText(text, JOB_ROLES[req[r].role_name]))

\* C5: whatever the interleaving of the requests, the result of each depends
\* on its own document and role only: it is the analysis of its own upload.
C5_RequestIsolation ==
  \A r \in Reqs : Analysed(r) => req[r].response = Respond(OwnOutcome(r))

\* C10: once a request with a file name has finished, on any exit path, the
\* temporary file written for it is no longer on disk.
C10_TempFileRemoved ==
  \A r \in Reqs :
    (req[r].pc = "done" /\ req[r].filename # "")
      => LET file == FileAt(PathJoin(UPLOAD_FOLDER, req[r].filename))
         IN  ~(file.exists /\ file.writer = r)

====
